---- MODULE Spec2Model ----
(***************************************************************************)
(* The employee record store of server.py: a JSON file holding a list of   *)
(* employee records, and the tools that read it whole, scan or change the  *)
(* list, and write it back whole.                                          *)
(*                                                                         *)
(* The repository holds two copies of the server, src/server.py and        *)
(* src/src/server.py.  Their tools are the same; read_db differs (the      *)
(* second recovers from a file it cannot parse).  The variable `module'    *)
(* says which copy is running.                                             *)
(*                                                                         *)
(* Salaries are floats in the source; the model writes them as integers.   *)
(* json.dump followed by json.load gives back equal strings, integers and  *)
(* finite floats, in the same key and list order, so a written list is     *)
(* read back as the same list of records.                                  *)
(***************************************************************************)
EXTENDS Integers, Sequences, FiniteSets

\* The number of add_employee calls that may succeed (caps the counters and the ids).
MaxAdds == 3

\* The largest id an add may assign when calls interleave.
MaxRaceId == 2

VARIABLES
    module,     \* which copy of server.py runs
    file,       \* the backing file at JSON_FILE_PATH
    call,       \* the last tool call made one at a time, with what it returned
    added,      \* history: add_employee calls, made one at a time, that succeeded
    deleted,    \* history: delete_employee calls, made one at a time, that succeeded
    pc,         \* per client: the tool it is inside, between load and persist
    employees,  \* per client: the local variable `employees' of that tool
    req,        \* per client: the arguments of the tool it is inside
    result      \* per client: what its last tool returned

vars == <<module, file, call, added, deleted, pc, employees, req, result>>

seqVars == <<module, file, call, added, deleted>>
concVars == <<pc, employees, req, result>>

Modules == {"src/server.py", "src/src/server.py"}

Procs == {"p1", "p2"}

----------------------------------------------------------------------------
\* Inputs of the tools.

Ana == [name |-> "Ana", job_role |-> "Engineer", department |-> "R&D", salary |-> 95000]
Bo == [name |-> "Bo", job_role |-> "Analyst", department |-> "Finance", salary |-> 70000]

Inputs ==
    {Ana, Bo,
     [Ana EXCEPT !.name = ""],
     [Bo EXCEPT !.job_role = "", !.department = ""],
     [Bo EXCEPT !.salary = 0]}

ValidInputs == {Ana, Bo}

NoArgs == [name |-> "", job_role |-> "", department |-> "", salary |-> 0]

EmployeeIds == 1..MaxAdds

RaceIds == 1..MaxRaceId

\* class Employee: the declared constraints on a record's fields.
Employee(e) ==
    /\ e.name # ""
    /\ e.job_role # ""
    /\ e.department # ""
    /\ e.salary > 0

----------------------------------------------------------------------------
\* The backing file and its two helpers.

AbsentFile == [kind |-> "absent", data |-> <<>>]
UnparsableFile == [kind |-> "unparsable", data |-> <<>>]
\* A file that parses to a JSON object, {"employees": []}, not to a list.
ObjectFile == [kind |-> "object", data |-> <<>>]

Loaded(exc, kind, data) == [exc |-> exc, kind |-> kind, data |-> data]

read_db_root(f) ==
    IF f.kind = "absent" THEN Loaded("none", "list", <<>>)
    ELSE IF f.kind = "unparsable" THEN Loaded("JSONDecodeError", "none", <<>>)
    ELSE IF f.kind = "object" THEN Loaded("none", "object", <<>>)
    ELSE Loaded("none", "list", f.data)

read_db_src(f) ==
    IF f.kind = "absent" THEN Loaded("none", "list", <<>>)
    ELSE IF f.kind = "unparsable" THEN Loaded("none", "list", <<>>)
    ELSE IF f.kind = "object" THEN Loaded("none", "list", <<>>)
    ELSE Loaded("none", "list", f.data)

read_db(m, f) == IF m = "src/server.py" THEN read_db_root(f) ELSE read_db_src(f)

write_db(data) == [kind |-> "list", data |-> data]

----------------------------------------------------------------------------
\* What the tools compute on the loaded list.

Ids(emps) == {emps[i].id : i \in 1..Len(emps)}

Max(S) == CHOOSE m \in S : \A x \in S : x <= m

\* [emp["id"] for emp in employees]
id_list(emps) == [i \in 1..Len(emps) |-> emps[i].id]

\* A variant that numbers by the length of the list: len(employees) + 1.
new_id_by_length(emps) == Len(emps) + 1

\* max([emp["id"] for emp in employees], default=0) + 1
new_id(emps) == (IF emps = <<>> THEN 0 ELSE Max(Ids(emps))) + 1

\* A variant that stores job_role and department in each other's place.
new_employee_swapped(id, name, job_role, department, salary) ==
    [id |-> id, name |-> name, job_role |-> department,
     department |-> job_role, salary |-> salary]

new_employee(id, name, job_role, department, salary) ==
    [id |-> id, name |-> name, job_role |-> job_role,
     department |-> department, salary |-> salary]

\* A variant that inserts the new record at the front of the list.
appended_in_front(emps, e) == <<e>> \o emps

\* A variant that drops the new record: the list is saved as it was loaded.
appended_not_saved(emps, e) == emps

\* employees.append(new_employee)
appended(emps, e) == Append(emps, e)

\* The index next(...) and the for loop stop at: the first record with the id, or 0.
first_match(emps, employee_id) ==
    IF \E i \in 1..Len(emps) : emps[i].id = employee_id
    THEN CHOOSE i \in 1..Len(emps) :
            /\ emps[i].id = employee_id
            /\ \A j \in 1..(i - 1) : emps[j].id # employee_id
    ELSE 0

\* A variant that leaves the salary out of the update.
updated_without_salary(emps, i, name, job_role, department, salary) ==
    [emps EXCEPT ![i] = [id |-> emps[i].id, name |-> name, job_role |-> job_role,
                         department |-> department, salary |-> emps[i].salary]]

\* emp.update({...}) on the record at index i
updated(emps, i, name, job_role, department, salary) ==
    [emps EXCEPT ![i] = [id |-> emps[i].id, name |-> name, job_role |-> job_role,
                         department |-> department, salary |-> salary]]

RECURSIVE updated_list_inverted(_, _)
\* A variant with the comparison inverted: it keeps the records with the id.
updated_list_inverted(emps, employee_id) ==
    IF emps = <<>> THEN <<>>
    ELSE IF Head(emps).id = employee_id
         THEN <<Head(emps)>> \o updated_list_inverted(Tail(emps), employee_id)
         ELSE updated_list_inverted(Tail(emps), employee_id)

RECURSIVE updated_list(_, _)
\* [e for e in employees if e["id"] != employee_id]
updated_list(emps, employee_id) ==
    IF emps = <<>> THEN <<>>
    ELSE IF Head(emps).id # employee_id
         THEN <<Head(emps)>> \o updated_list(Tail(emps), employee_id)
         ELSE updated_list(Tail(emps), employee_id)

----------------------------------------------------------------------------
\* What a tool returns: a message or a serialized value.

Returned(kind, id, records, ids) ==
    [kind |-> kind, id |-> id, records |-> records, ids |-> ids]

Raised(exc) == Returned(exc, 0, <<>>, <<>>)

Call(op, employee_id, args, returned) ==
    [op |-> op, employee_id |-> employee_id, args |-> args, returned |-> returned]

NoResult == Returned("none", 0, <<>>, <<>>)

NoCall == Call("none", 0, NoArgs, NoResult)

Args(name, job_role, department, salary) ==
    [name |-> name, job_role |-> job_role, department |-> department, salary |-> salary]

\* A tool that raises leaves the file as it is.
Raises(op, employee_id, args, exc) ==
    /\ call' = Call(op, employee_id, args, Raised(exc))
    /\ UNCHANGED <<module, file, added, deleted>>

\* What reading the loaded value as a list of records raises, if anything.
LoadError(db) ==
    IF db.exc # "none" THEN db.exc
    ELSE IF db.kind # "list" THEN "TypeError"
    ELSE "none"

----------------------------------------------------------------------------
\* The tools, called one at a time.

add_employee(name, job_role, department, salary) ==
    LET db == read_db(module, file)
        args == Args(name, job_role, department, salary)
    IN  IF LoadError(db) # "none"
        THEN Raises("add_employee", 0, args, LoadError(db))
        ELSE LET id == new_id(db.data)
             IN  /\ added < MaxAdds
                 /\ file' = write_db(appended(db.data,
                                new_employee(id, name, job_role, department, salary)))
                 /\ call' = Call("add_employee", 0, args, Returned("added", id, <<>>, <<>>))
                 /\ added' = added + 1
                 /\ UNCHANGED <<module, deleted>>

get_employee(employee_id) ==
    LET db == read_db(module, file)
    IN  IF LoadError(db) # "none"
        THEN Raises("get_employee", employee_id, NoArgs, LoadError(db))
        ELSE LET i == first_match(db.data, employee_id)
             IN  /\ call' = Call("get_employee", employee_id, NoArgs,
                                 IF i = 0
                                 THEN Returned("not_found", employee_id, <<>>, <<>>)
                                 ELSE Returned("record", employee_id, <<db.data[i]>>, <<>>))
                 /\ UNCHANGED <<module, file, added, deleted>>

update_employee(employee_id, name, job_role, department, salary) ==
    LET db == read_db(module, file)
        args == Args(name, job_role, department, salary)
    IN  IF LoadError(db) # "none"
        THEN Raises("update_employee", employee_id, args, LoadError(db))
        ELSE LET i == first_match(db.data, employee_id)
             IN  IF i = 0
                 THEN /\ call' = Call("update_employee", employee_id, args,
                                      Returned("not_found", employee_id, <<>>, <<>>))
                      /\ UNCHANGED <<module, file, added, deleted>>
                 ELSE /\ file' = write_db(updated(db.data, i, name, job_role,
                                                  department, salary))
                      /\ call' = Call("update_employee", employee_id, args,
                                      Returned("updated", employee_id, <<>>, <<>>))
                      /\ UNCHANGED <<module, added, deleted>>

\* A variant without the length comparison: it always saves and reports success.
delete_employee_unchecked(employee_id) ==
    LET db == read_db(module, file)
    IN  IF LoadError(db) # "none"
        THEN Raises("delete_employee", employee_id, NoArgs, LoadError(db))
        ELSE /\ file' = write_db(updated_list(db.data, employee_id))
             /\ call' = Call("delete_employee", employee_id, NoArgs,
                             Returned("deleted", employee_id, <<>>, <<>>))
             /\ deleted' = deleted + 1
             /\ UNCHANGED <<module, added>>

delete_employee(employee_id) ==
    LET db == read_db(module, file)
    IN  IF LoadError(db) # "none"
        THEN Raises("delete_employee", employee_id, NoArgs, LoadError(db))
        ELSE LET rest == updated_list(db.data, employee_id)
             IN  IF Len(rest) = Len(db.data)
                 THEN /\ call' = Call("delete_employee", employee_id, NoArgs,
                                      Returned("not_found", employee_id, <<>>, <<>>))
                      /\ UNCHANGED <<module, file, added, deleted>>
                 ELSE /\ file' = write_db(rest)
                      /\ call' = Call("delete_employee", employee_id, NoArgs,
                                      Returned("deleted", employee_id, <<>>, <<>>))
                      /\ deleted' = deleted + 1
                      /\ UNCHANGED <<module, added>>

list_employees ==
    LET db == read_db(module, file)
    IN  IF db.exc # "none"
        THEN Raises("list_employees", 0, NoArgs, db.exc)
        ELSE /\ call' = Call("list_employees", 0, NoArgs,
                             IF db.kind = "list"
                             THEN Returned("list", 0, db.data, <<>>)
                             ELSE Returned("object", 0, <<>>, <<>>))
             /\ UNCHANGED <<module, file, added, deleted>>

get_employee_ids ==
    LET db == read_db(module, file)
    IN  IF LoadError(db) # "none"
        THEN Raises("get_employee_ids", 0, NoArgs, LoadError(db))
        ELSE /\ call' = Call("get_employee_ids", 0, NoArgs,
                             Returned("ids", 0, <<>>, id_list(db.data)))
             /\ UNCHANGED <<module, file, added, deleted>>

---------------------------------------------------------------------------------------------------------------------------------------------------
\* The store used one call at a time, from an absent or empty file.

Req(employee_id, args) == [employee_id |-> employee_id, args |-> args]

InitCommon ==
    /\ module \in Modules
    /\ call = NoCall
    /\ added = 0
    /\ deleted = 0
    /\ pc = [p \in Procs |-> "idle"]
    /\ employees = [p \in Procs |-> <<>>]
    /\ req = [p \in Procs |-> Req(0, NoArgs)]
    /\ result = [p \in Procs |-> NoResult]

Init ==
    /\ InitCommon
    /\ file \in {AbsentFile, write_db(<<>>)}

AddStep ==
    /\ \E a \in Inputs : add_employee(a.name, a.job_role, a.department, a.salary)
    /\ UNCHANGED concVars

GetStep ==
    /\ \E id \in EmployeeIds : get_employee(id)
    /\ UNCHANGED concVars

UpdateStep ==
    /\ \E id \in EmployeeIds, a \in Inputs :
            update_employee(id, a.name, a.job_role, a.department, a.salary)
    /\ UNCHANGED concVars

DeleteStep ==
    /\ \E id \in EmployeeIds : delete_employee(id)
    /\ UNCHANGED concVars

ListStep ==
    /\ list_employees
    /\ UNCHANGED concVars

IdsStep ==
    /\ get_employee_ids
    /\ UNCHANGED concVars

Next ==
    \/ AddStep
    \/ GetStep
    \/ UpdateStep
    \/ DeleteStep
    \/ ListStep
    \/ IdsStep

Spec == Init /\ [][Next]_vars

----------------------------------------------------------------------------
\* The same calls, from a backing file in any condition.

InitMalformed ==
    /\ InitCommon
    /\ file \in {AbsentFile, UnparsableFile, ObjectFile, write_db(<<>>)}

SpecMalformed == InitMalformed /\ [][Next]_vars

----------------------------------------------------------------------------
\* Two clients whose calls interleave.  Nothing in the source holds a lock
\* from read_db to write_db, so a mutating tool is two steps: the load (its
\* read_db) and the persist (what it computes from the loaded list, and its
\* write_db).  Each read_db and each write_db is one step: two write_db calls
\* that overlap byte by byte are not modelled.

Load(p, tool, employee_id, args) ==
    /\ pc[p] = "idle"
    /\ LoadError(read_db(module, file)) = "none"
    /\ pc' = [pc EXCEPT ![p] = tool]
    /\ employees' = [employees EXCEPT ![p] = read_db(module, file).data]
    /\ req' = [req EXCEPT ![p] = Req(employee_id, args)]
    /\ result' = [result EXCEPT ![p] = NoResult]
    /\ UNCHANGED <<module, file, call, added, deleted>>

Return(p, returned) ==
    /\ pc' = [pc EXCEPT ![p] = "idle"]
    /\ employees' = [employees EXCEPT ![p] = <<>>]
    /\ req' = [req EXCEPT ![p] = Req(0, NoArgs)]
    /\ result' = [result EXCEPT ![p] = returned]
    /\ UNCHANGED <<module, call, added, deleted>>

add_employee_load(p, name, job_role, department, salary) ==
    /\ new_id(read_db(module, file).data) <= MaxRaceId
    /\ Load(p, "add_employee", 0, Args(name, job_role, department, salary))

\* A variant that holds a lock from load to persist: it computes from the file
\* as it is when it persists.
add_employee_persist_locked(p) ==
    /\ pc[p] = "add_employee"
    /\ LET now == read_db(module, file).data
           id == new_id(now)
           a == req[p].args
       IN  /\ file' = write_db(appended(now,
                          new_employee(id, a.name, a.job_role, a.department, a.salary)))
           /\ Return(p, Returned("added", id, <<>>, <<>>))

add_employee_persist(p) ==
    /\ pc[p] = "add_employee"
    /\ LET id == new_id(employees[p])
           a == req[p].args
       IN  /\ file' = write_db(appended(employees[p],
                          new_employee(id, a.name, a.job_role, a.department, a.salary)))
           /\ Return(p, Returned("added", id, <<>>, <<>>))

update_employee_load(p, employee_id, name, job_role, department, salary) ==
    Load(p, "update_employee", employee_id, Args(name, job_role, department, salary))

update_employee_persist(p) ==
    /\ pc[p] = "update_employee"
    /\ LET i == first_match(employees[p], req[p].employee_id)
           a == req[p].args
       IN  IF i = 0
           THEN /\ Return(p, Returned("not_found", req[p].employee_id, <<>>, <<>>))
                /\ UNCHANGED file
           ELSE /\ file' = write_db(updated(employees[p], i, a.name, a.job_role,
                                            a.department, a.salary))
                /\ Return(p, Returned("updated", req[p].employee_id, <<>>, <<>>))

delete_employee_load(p, employee_id) ==
    Load(p, "delete_employee", employee_id, NoArgs)

delete_employee_persist(p) ==
    /\ pc[p] = "delete_employee"
    /\ LET rest == updated_list(employees[p], req[p].employee_id)
       IN  IF Len(rest) = Len(employees[p])
           THEN /\ Return(p, Returned("not_found", req[p].employee_id, <<>>, <<>>))
                /\ UNCHANGED file
           ELSE /\ file' = write_db(rest)
                /\ Return(p, Returned("deleted", req[p].employee_id, <<>>, <<>>))

AddLoad ==
    \E p \in Procs, a \in ValidInputs :
        add_employee_load(p, a.name, a.job_role, a.department, a.salary)

AddPersist == \E p \in Procs : add_employee_persist(p)

UpdateLoad ==
    \E p \in Procs, id \in RaceIds, a \in ValidInputs :
        update_employee_load(p, id, a.name, a.job_role, a.department, a.salary)

UpdatePersist == \E p \in Procs : update_employee_persist(p)

DeleteLoad == \E p \in Procs, id \in RaceIds : delete_employee_load(p, id)

DeletePersist == \E p \in Procs : delete_employee_persist(p)

NextConcurrent ==
    \/ AddLoad
    \/ AddPersist
    \/ UpdateLoad
    \/ UpdatePersist
    \/ DeleteLoad
    \/ DeletePersist

SpecConcurrent == Init /\ [][NextConcurrent]_vars

----------------------------------------------------------------------------
\* Properties of the store.

\* The collection the tools see in the current file.
Collection == read_db(module, file).data

Record(id, a) ==
    [id |-> id, name |-> a.name, job_role |-> a.job_role,
     department |-> a.department, salary |-> a.salary]

UniqueIds(emps) ==
    \A i, j \in 1..Len(emps) : i # j => emps[i].id # emps[j].id

Without(emps, i) == SubSeq(emps, 1, i - 1) \o SubSeq(emps, i + 1, Len(emps))

NotFound(id) == Returned("not_found", id, <<>>, <<>>)

\* C1: from an empty or absent file, after any calls made one at a time, no
\* two records of the persisted collection have the same id.
C1_UniqueIds == UniqueIds(file.data)

\* Three adds and a delete: two records left, with a gap in the ids.
C1_Witness == added = 3 /\ deleted = 1 /\ Len(file.data) = 2

\* C2: add_employee assigns 1 to the first record of an empty collection and
\* otherwise the largest id present plus one, an id no present record has;
\* it appends the new record after the existing ones and returns that id.
C2_AddAssignsMaxPlusOne ==
    [][(call'.op = "add_employee" /\ call'.returned.kind = "added") =>
        LET n == call'.returned.id
        IN  /\ Collection = <<>> => n = 1
            /\ Collection # <<>> =>
                  /\ \E i \in 1..Len(Collection) : Collection[i].id = n - 1
                  /\ \A i \in 1..Len(Collection) : Collection[i].id <= n - 1
            /\ \A i \in 1..Len(Collection) : Collection[i].id # n
            /\ file' = [kind |-> "list",
                        data |-> Collection \o <<Record(n, call'.args)>>]
            /\ call'.returned = Returned("added", n, <<>>, <<>>)]_vars

\* An add into a collection whose ids have a gap: id 3 given with one record present.
C2_Witness ==
    /\ call.op = "add_employee"
    /\ call.returned.id = 3
    /\ Len(file.data) = 2
    /\ file.data[2].id = 3

\* C3: an add or update with an empty name, job_role or department, or a
\* salary that is not above zero, fails with a validation error and leaves the
\* persisted collection as it was.
C3_InvalidInputRejected ==
    [][(call'.op \in {"add_employee", "update_employee"} /\ ~Employee(call'.args)) =>
        /\ call'.returned.kind = "ValidationError"
        /\ file' = file]_vars

\* C4: with the file missing, unparsable or not a list, every tool treats the
\* collection as empty: none fails, list_employees returns an empty sequence,
\* and add_employee returns id 1 and persists only the new record.
C4_MalformedFileIsEmpty ==
    [][file.kind # "list" =>
        /\ call'.returned.kind \notin {"JSONDecodeError", "TypeError"}
        /\ call'.op = "list_employees" => call'.returned = Returned("list", 0, <<>>, <<>>)
        /\ call'.op = "add_employee" =>
              /\ call'.returned = Returned("added", 1, <<>>, <<>>)
              /\ file' = [kind |-> "list", data |-> <<Record(1, call'.args)>>]]_vars

\* The recovery C4 describes, where it holds: the same statement for the copy
\* in src/src/server.py alone.
C4_HoldsInRecoveringCopy ==
    [][(module = "src/src/server.py" /\ file.kind # "list") =>
        /\ call'.returned.kind \notin {"JSONDecodeError", "TypeError"}
        /\ call'.op = "list_employees" => call'.returned = Returned("list", 0, <<>>, <<>>)
        /\ call'.op = "add_employee" =>
              /\ call'.returned = Returned("added", 1, <<>>, <<>>)
              /\ file' = [kind |-> "list", data |-> <<Record(1, call'.args)>>]]_vars

\* C5: a successful delete_employee(id) removes exactly one record, the one
\* with that id; the others stay, with their values, in their order.
C5_DeleteRemovesExactlyOne ==
    [][(call'.op = "delete_employee" /\ call'.returned.kind = "deleted") =>
        \E i \in 1..Len(Collection) :
            /\ Collection[i].id = call'.employee_id
            /\ file' = [kind |-> "list", data |-> Without(Collection, i)]]_vars

\* The middle one of three records deleted.
C5_Witness ==
    /\ call.op = "delete_employee"
    /\ call.returned.kind = "deleted"
    /\ call.employee_id = 2
    /\ Len(file.data) = 2
    /\ file.data[1].id = 1
    /\ file.data[2].id = 3

\* C6: get, update and delete of an id that is not in the collection return
\* not-found and leave the file as it was; a delete of the id a successful
\* delete has just removed returns not-found and removes nothing.
C6_NotFoundChangesNothing ==
    [][/\ (/\ call'.op \in {"get_employee", "update_employee", "delete_employee"}
           /\ \A i \in 1..Len(Collection) : Collection[i].id # call'.employee_id)
          => (call'.returned = NotFound(call'.employee_id) /\ file' = file)
       /\ (/\ call.op = "delete_employee"
           /\ call.returned.kind = "deleted"
           /\ call'.op = "delete_employee"
           /\ call'.employee_id = call.employee_id)
          => (call'.returned = NotFound(call'.employee_id) /\ file' = file)]_vars

\* Id 1 deleted, then asked for again, with the record of id 2 still there.
C6_Witness ==
    /\ call.op = "delete_employee"
    /\ call.employee_id = 1
    /\ call.returned.kind = "not_found"
    /\ added = 2
    /\ deleted = 1
    /\ Len(file.data) = 1
    /\ file.data[1].id = 2

\* C7: a successful update_employee keeps the record's id and position, sets
\* its four other fields to the given values and leaves every other record as
\* it was; a get_employee of the id that follows returns the new values.
C7_UpdateInPlace ==
    [][/\ (call'.op = "update_employee" /\ call'.returned.kind = "updated") =>
            \E i \in 1..Len(Collection) :
                /\ Collection[i].id = call'.employee_id
                /\ file' = [kind |-> "list",
                            data |-> [Collection EXCEPT
                                        ![i] = Record(call'.employee_id, call'.args)]]
       /\ (/\ call.op = "update_employee"
           /\ call.returned.kind = "updated"
           /\ call'.op = "get_employee"
           /\ call'.employee_id = call.employee_id)
          => call'.returned = Returned("record", call.employee_id,
                                       <<Record(call.employee_id, call.args)>>, <<>>)]_vars

\* The second of three records updated, to values it did not have.
C7_Witness ==
    /\ call.op = "update_employee"
    /\ call.returned.kind = "updated"
    /\ Len(file.data) = 3
    /\ call.employee_id = file.data[2].id
    /\ call.args = Bo
    /\ file.data[1].name = "Ana"
    /\ file.data[3].name = "Ana"

\* C8: from an empty collection, the number of records list_employees returns
\* is the number of successful add_employee calls minus the number of
\* successful delete_employee calls.
C8_LengthIsAddsMinusDeletes ==
    /\ Len(Collection) = added - deleted
    /\ call.op = "list_employees" =>
          /\ call.returned.kind = "list"
          /\ Len(call.returned.records) = added - deleted

\* A list of two records after three adds and a delete.
C8_Witness ==
    /\ call.op = "list_employees"
    /\ Len(call.returned.records) = 2
    /\ added = 3
    /\ deleted = 1

\* C9: add_employee with valid inputs, followed at once by get_employee of the
\* returned id, gets a record with that id and the fields given to the add.
C9_AddThenGet ==
    [][(/\ call.op = "add_employee"
        /\ call.returned.kind = "added"
        /\ Employee(call.args)
        /\ call'.op = "get_employee"
        /\ call'.employee_id = call.returned.id)
       => call'.returned = Returned("record", call.returned.id,
                                    <<Record(call.returned.id, call.args)>>, <<>>)]_vars

\* A get that returns the record of id 3, the last of two after a delete.
C9_Witness ==
    /\ call.op = "get_employee"
    /\ call.returned.kind = "record"
    /\ call.employee_id = 3
    /\ added = 3
    /\ Len(file.data) = 2
    /\ call.returned.records = <<file.data[2]>>

\* Client q loaded its list for an add, and then client p's add returned an
\* id after persisting that same list with its own record appended: both
\* loaded before either persisted, and p persisted first.
Raced(p, q) ==
    /\ p # q
    /\ pc[q] = "add_employee"
    /\ pc[p] = "idle"
    /\ result[p].kind = "added"
    /\ Len(file.data) = Len(employees[q]) + 1
    /\ SubSeq(file.data, 1, Len(employees[q])) = employees[q]
    /\ file.data[Len(file.data)].id = result[p].id

\* C10: nothing serializes the calls: when two add_employee calls both load
\* before either persists, both get the same id, and after both have
\* persisted the collection holds only one of the two new records; the ids in
\* the persisted collection stay unique.
C10_RacingAddsLoseOne ==
    /\ [](UniqueIds(file.data))
    /\ [][\A p, q \in Procs :
            (Raced(p, q) /\ pc'[q] = "idle") =>
                LET mine == Record(result[p].id, req[q].args)
                    lost == file.data[Len(file.data)]
                IN  /\ result'[q] = Returned("added", result[p].id, <<>>, <<>>)
                    /\ file'.data = employees[q] \o <<mine>>
                    /\ Len(file'.data) = Len(employees[q]) + 1
                    /\ lost # mine =>
                          \A i \in 1..Len(file'.data) : file'.data[i] # lost]_vars

\* Ana's add has persisted with id 2 while Bo's add, loaded from the same
\* one-record list, has yet to persist.
C10_Witness ==
    \E p, q \in Procs :
        /\ Raced(p, q)
        /\ result[p].id = 2
        /\ file.data[2].name = "Ana"
        /\ req[q].args = Bo

====
